---- MODULE Spec2Model ----
(***************************************************************************)
(* The upload ring buffer of D3D12::Renderer: reserveChunkOfUploadBuffer,  *)
(* copyToUploadBuffer, the staging operations that call it,                *)
(* executeCopyCommands and stop, together with the copy queue that         *)
(* consumes the submitted command lists.                                   *)
(*                                                                         *)
(* Offsets and sizes are scaled down: the buffer has UPLOAD_BUF_SIZE bytes *)
(* and the alignments are the powers of two up to MaxAlignment.            *)
(***************************************************************************)
EXTENDS Integers, Sequences, FiniteSets, TLC

(* ------------------------------ bounds --------------------------------- *)

\* Scaled-down size of the upload buffer, in bytes.
UPLOAD_BUF_SIZE == 5

\* Largest alignment requested by a staging operation.
MaxAlignment == 4

\* By how much an oversized request may exceed the capacity.
MaxOversize == 2

\* Width in bits of the scaled-down type uint.
UINT_BITS == 8

\* Frames that the graphics queue can hold.
MaxFrames == 1

\* sizeof(tViewProj), scaled to the buffer.
ViewProjSize == 2

(* ----------------------------- constants ------------------------------- *)

\* The number of values of the (scaled-down) type uint.
UINT_RANGE == 2^UINT_BITS

\* The largest uint: the value of an invalid segment start.
UINT_MAX == UINT_RANGE - 1

IsPowerOfTwo(a) == \E k \in 0..a : 2^k = a

Alignments == {a \in 1..MaxAlignment : IsPowerOfTwo(a)}

\* The largest alignment: the address the buffer is mapped to.
PageSize == CHOOSE a \in Alignments : \A b \in Alignments : b <= a

VARIABLES
    begin,          \* m_uploadBuffer.begin
    capacity,       \* m_uploadBuffer.capacity
    offset,         \* m_uploadBuffer.offset
    prevSegStart,   \* m_uploadBuffer.prevSegStart
    currSegStart,   \* m_uploadBuffer.currSegStart
    pc,             \* position of the producer thread
    frame,          \* arguments, locals and effects of the current (or last) call
    commandList,    \* copy commands recorded in m_copyContext.commandList(0)
    inflight,       \* command lists submitted to the copy queue, not yet completed
    graphicsQueue   \* waits and frames submitted to the graphics queue, not yet passed

vars == <<begin, capacity, offset, prevSegStart, currSegStart, pc, frame,
          commandList, inflight, graphicsQueue>>

(* --------------------------- pure functions ---------------------------- *)

\* align<alignment>(address): the address rounded up to a multiple of a
\* power-of-two alignment, (address + (alignment - 1)) & ~(alignment - 1).
align(alignment, address) ==
    (address + (alignment - 1)) - ((address + (alignment - 1)) % alignment)

\* static_cast<uint>
ToUint(x) == x % UINT_RANGE

FirstAlignedOffset_unaligned(beg, off, alignment) == off

FirstAlignedOffset_next(beg, off, alignment) == align(alignment, beg + off + 1) - beg

\* alignedOffset before the capacity check
FirstAlignedOffset(beg, off, alignment) == align(alignment, beg + off) - beg

\* remainingCapacity, an int64
RemainingCapacity(cap, alignedOffset) == cap - alignedOffset

WrapAround_offByOne(cap, alignedOffset, size) ==
    RemainingCapacity(cap, alignedOffset) + 1 < size

WrapAround(cap, alignedOffset, size) == RemainingCapacity(cap, alignedOffset) < size

WrappedAlignedOffset_noRebase(beg, alignment) == align(alignment, beg)

\* alignedOffset recomputed from the beginning of the buffer
WrappedAlignedOffset(beg, alignment) == align(alignment, beg) - beg

AlignedOffset(beg, cap, off, size, alignment) ==
    IF WrapAround(cap, FirstAlignedOffset(beg, off, alignment), size)
    THEN WrappedAlignedOffset(beg, alignment)
    ELSE FirstAlignedOffset(beg, off, alignment)

AlignedAddress_noWrap(beg, cap, off, size, alignment) == align(alignment, beg + off)

\* alignedAddress, the pointer that reserveChunkOfUploadBuffer returns
AlignedAddress(beg, cap, off, size, alignment) ==
    IF WrapAround(cap, FirstAlignedOffset(beg, off, alignment), size)
    THEN align(alignment, beg)
    ELSE align(alignment, beg + off)

\* memcpy(address, data, size) into the buffer mapped at beg: the bytes of
\* the buffer it writes, each with the (1-based) index of the byte of data
\* it receives.
memcpy(beg, address, size) ==
    [b \in (address - beg)..(address - beg + size - 1) |-> b - (address - beg) + 1]

\* No byte of the buffer written.
NoWrite == [b \in {} |-> 0]

\* The debug-only check that the buffer can hold the request at all.
InsufficientCapacity(nd, cap, alignedOffset, size) ==
    ~nd /\ (cap - alignedOffset) < size

AlignedEnd_last(alignedOffset, size) == ToUint(alignedOffset + size - 1)

AlignedEnd(alignedOffset, size) == ToUint(alignedOffset + size)

caseA_inclusive(off, curr, alignedEnd) == (off <= curr) /\ (curr <= alignedEnd)

caseA_exclusive(off, curr, alignedEnd) == (off < curr) /\ (curr < alignedEnd)

caseA(off, curr, alignedEnd) == (off < curr) /\ (curr <= alignedEnd)

caseB(curr, alignedEnd, wrapAround) == (curr <= alignedEnd) /\ wrapAround

caseC_inclusive(off, curr, wrapAround) == (off <= curr) /\ wrapAround

caseC_reversed(off, curr, wrapAround) == (curr < off) /\ wrapAround

caseC(off, curr, wrapAround) == (off < curr) /\ wrapAround

ExecuteAllCopies_noCaseB(off, curr, alignedEnd, wrapAround) ==
    caseA(off, curr, alignedEnd) \/ caseC(off, curr, wrapAround)

ExecuteAllCopies(off, curr, alignedEnd, wrapAround) ==
    caseA(off, curr, alignedEnd) \/ caseB(curr, alignedEnd, wrapAround)
                                 \/ caseC(off, curr, wrapAround)

caseD_reversed(off, prev, alignedEnd) == (off <= prev) /\ (alignedEnd < prev)

caseD(off, prev, alignedEnd) == (off <= prev) /\ (prev < alignedEnd)

caseE(prev, alignedEnd, wrapAround) == (prev < alignedEnd) /\ wrapAround

WaitForPrevCopies(off, prev, alignedEnd, wrapAround) ==
    caseD(off, prev, alignedEnd) \/ caseE(prev, alignedEnd, wrapAround)

ImmediateCopyArg_always(executeAllCopies, waitForPrevCopies) == TRUE

ImmediateCopyArg_wait(executeAllCopies, waitForPrevCopies) == waitForPrevCopies

\* The argument reserveChunkOfUploadBuffer passes to executeCopyCommands.
ImmediateCopyArg(executeAllCopies, waitForPrevCopies) == executeAllCopies

CallsExecute_onlyWait(executeAllCopies, waitForPrevCopies) == waitForPrevCopies

CallsExecute_onlyAll(executeAllCopies, waitForPrevCopies) == executeAllCopies

CallsExecute_always(executeAllCopies, waitForPrevCopies) == TRUE

\* Whether reserveChunkOfUploadBuffer calls executeCopyCommands.
CallsExecute(executeAllCopies, waitForPrevCopies) ==
    executeAllCopies \/ waitForPrevCopies

NewPrevSegStart_keep(immediateCopy, curr) == curr

NewPrevSegStart_invalid(immediateCopy, curr) == UINT_MAX

NewPrevSegStart_swapped(immediateCopy, curr) == IF immediateCopy THEN curr ELSE UINT_MAX

\* The cursors at the end of executeCopyCommands.
NewPrevSegStart(immediateCopy, curr) == IF immediateCopy THEN UINT_MAX ELSE curr

NewCurrSegStart_skip(off) == off + 1

NewCurrSegStart(off) == off

(* ------------------------------ copy context --------------------------- *)

\* A copy command reading [start, start + size) of the upload buffer;
\* subs counts the submissions of the command.
CopyCommand(start, size) == [start |-> start, size |-> size, subs |-> 0]

Submitted(cl) == [i \in 1..Len(cl) |-> [cl[i] EXCEPT !.subs = @ + 1]]

ResetCommandList_keep(cl) == cl

\* m_copyContext.resetCommandList(0, nullptr)
ResetCommandList(cl) == <<>>

\* syncThread(insertedValue) returns once the command list just submitted,
\* and with it every earlier one, has completed.
SyncThreadDone(q) == q = <<>>

\* resetCommandAllocator() of the double-buffered copy context returns once
\* the command list submitted before the latest one has completed.
ResetCommandAllocatorDone(q) == Len(q) <= 1

Bytes(c) == c.start .. (c.start + c.size - 1)

BytesOf(cl) == UNION {Bytes(cl[i]) : i \in 1..Len(cl)}

BytesInFlight == UNION {BytesOf(inflight[i]) : i \in 1..Len(inflight)}

(* ---------------------------- graphics context ------------------------- *)

\* An entry of the graphics queue.  A wait is passed when the copy queue has
\* completed `copies` more command lists; a frame is a command list
\* submitted by finalizeFrame, and copies counts the command lists of the
\* copy queue that were submitted before it and have not completed.
GraphicsWait(copies) == [kind |-> "wait", copies |-> copies]

GraphicsFrame(copies) == [kind |-> "frame", copies |-> copies]

\* The graphics queue passes the waits at its head whose fence value has
\* been reached.
RECURSIVE Passed(_)
Passed(gq) ==
    IF gq # <<>> /\ Head(gq).kind = "wait" /\ Head(gq).copies = 0
    THEN Passed(Tail(gq))
    ELSE gq

SyncCommandQueue_none(gq, copies) == gq

\* m_graphicsContext.syncCommandQueue(insertedFence, insertedValue): the
\* graphics queue waits for the fence value of the command list just
\* submitted, the copies-th of the copy queue.  The values of the fence only
\* grow, so the wait takes the place of a wait directly in front of it.
SyncCommandQueue(gq, copies) ==
    Passed(IF gq # <<>> /\ gq[Len(gq)].kind = "wait"
           THEN [gq EXCEPT ![Len(gq)] = GraphicsWait(copies)]
           ELSE Append(gq, GraphicsWait(copies)))

\* The copy queue has completed a command list and signalled its fence.
FenceSignalled(gq) ==
    Passed([i \in 1..Len(gq) |->
               [gq[i] EXCEPT !.copies = IF @ > 0 THEN @ - 1 ELSE 0]])

Frames(gq) == {i \in 1..Len(gq) : gq[i].kind = "frame"}

(* -------------------------------- state -------------------------------- *)

NoCall == [op |-> "none", prevOp |-> "none", size |-> 0, alignment |-> 1,
           start |-> 0, alignedEnd |-> 0, wrapAround |-> FALSE,
           executeAllCopies |-> FALSE, waitForPrevCopies |-> FALSE,
           immediateCopy |-> FALSE, flushed |-> FALSE,
           offset0 |-> 0, prev0 |-> UINT_MAX, curr0 |-> 0,
           submits |-> 0, waits |-> 0, batch |-> <<>>,
           address |-> 0, result |-> 0, written |-> NoWrite, pending0 |-> <<>>,
           flushedBefore |-> FALSE]

\* The state after Renderer::Renderer: an empty buffer, nothing in flight.
Init ==
    /\ begin = PageSize
    /\ capacity = UPLOAD_BUF_SIZE
    /\ offset = 0
    /\ prevSegStart = UINT_MAX
    /\ currSegStart \in {0, UINT_MAX}
    /\ pc = "idle"
    /\ frame = NoCall
    /\ commandList = <<>>
    /\ inflight = <<>>
    /\ graphicsQueue = <<>>

(* ------------------------------- actions ------------------------------- *)

\* 1 when the thread reaches a wait whose command list has not completed.
Blocks(done) == IF done THEN 0 ELSE 1

ExecuteBegin_twice(immediateCopy, fr) ==
    /\ commandList' = Submitted(Submitted(commandList))
    /\ inflight' = Append(Append(inflight, Submitted(commandList)),
                          Submitted(Submitted(commandList)))
    /\ graphicsQueue' = SyncCommandQueue(
                            SyncCommandQueue(graphicsQueue, Len(inflight) + 1),
                            Len(inflight) + 2)
    /\ pc' = IF immediateCopy THEN "syncThread" ELSE "resetCommandAllocator"
    /\ frame' = [fr EXCEPT !.immediateCopy = immediateCopy,
                           !.flushed = TRUE,
                           !.submits = @ + 2,
                           !.batch = Submitted(Submitted(commandList)),
                           !.waits = @ + 1]

ExecuteBegin_recordFirst(immediateCopy, fr) ==
    LET recorded == IF fr.op = "stage"
                    THEN Append(commandList, CopyCommand(fr.start, fr.size))
                    ELSE commandList
    IN  /\ commandList' = Submitted(recorded)
        /\ inflight' = Append(inflight, Submitted(recorded))
        /\ graphicsQueue' = SyncCommandQueue(graphicsQueue, Len(inflight) + 1)
        /\ pc' = IF immediateCopy THEN "syncThread" ELSE "resetCommandAllocator"
        /\ frame' = [fr EXCEPT !.immediateCopy = immediateCopy,
                               !.flushed = TRUE,
                               !.submits = @ + 1,
                               !.batch = Submitted(recorded),
                               !.waits = @ + (IF immediateCopy
                                              THEN Blocks(SyncThreadDone(inflight'))
                                              ELSE Blocks(ResetCommandAllocatorDone(inflight')))]

\* The first part of executeCopyCommands: executeCommandList(0) submits the
\* recorded commands; the thread then reaches syncThread (immediateCopy) or
\* resetCommandAllocator.
ExecuteBegin(immediateCopy, fr) ==
    /\ commandList' = Submitted(commandList)
    /\ inflight' = Append(inflight, Submitted(commandList))
    /\ graphicsQueue' = SyncCommandQueue(graphicsQueue, Len(inflight) + 1)
    /\ pc' = IF immediateCopy THEN "syncThread" ELSE "resetCommandAllocator"
    /\ frame' = [fr EXCEPT !.immediateCopy = immediateCopy,
                           !.flushed = TRUE,
                           !.submits = @ + 1,
                           !.batch = Submitted(commandList),
                           !.waits = @ + (IF immediateCopy
                                          THEN Blocks(SyncThreadDone(inflight'))
                                          ELSE Blocks(ResetCommandAllocatorDone(inflight')))]

\* A staging operation (createVertexBuffer, createIndexBuffer,
\* createConstantBuffer, createTexture, setViewProjMatrix): it calls
\* copyToUploadBuffer<alignment>(size, data), which reserves a chunk, and
\* then records the copy command that reads the chunk.  ndebug tells
\* whether the build defines NDEBUG.
StageBody(size, alignment, ndebug) ==
    LET first      == FirstAlignedOffset(begin, offset, alignment)
        wrapAround == WrapAround(capacity, first, size)
        alignedOff == AlignedOffset(begin, capacity, offset, size, alignment)
        alignedEnd == AlignedEnd(alignedOff, size)
        execAll    == ExecuteAllCopies(offset, currSegStart, alignedEnd, wrapAround)
        waitPrev   == WaitForPrevCopies(offset, prevSegStart, alignedEnd, wrapAround)
        fr         == [op |-> "stage", prevOp |-> frame.op, size |-> size,
                       alignment |-> alignment,
                       start |-> alignedOff, alignedEnd |-> alignedEnd,
                       wrapAround |-> wrapAround,
                       executeAllCopies |-> execAll, waitForPrevCopies |-> waitPrev,
                       immediateCopy |-> FALSE, flushed |-> FALSE,
                       offset0 |-> offset, prev0 |-> prevSegStart,
                       curr0 |-> currSegStart,
                       submits |-> 0, waits |-> 0, batch |-> <<>>,
                       address |-> AlignedAddress(begin, capacity, offset, size,
                                                  alignment),
                       result |-> ToUint(alignedOff),
                       written |-> NoWrite, pending0 |-> commandList,
                       flushedBefore |-> frame.flushedBefore \/ frame.flushed]
    IN  /\ pc = "idle"
        /\ IF wrapAround /\ InsufficientCapacity(ndebug, capacity, alignedOff, size)
           THEN /\ pc' = "terminated"
                /\ frame' = fr
                /\ UNCHANGED <<offset, prevSegStart, currSegStart, commandList, inflight,
                                graphicsQueue>>
           ELSE IF CallsExecute(execAll, waitPrev)
           THEN /\ offset' = ToUint(alignedOff)
                /\ ExecuteBegin(ImmediateCopyArg(execAll, waitPrev), fr)
                /\ UNCHANGED <<prevSegStart, currSegStart>>
           ELSE /\ offset' = alignedEnd
                /\ commandList' = Append(commandList, CopyCommand(alignedOff, size))
                /\ pc' = IF alignedEnd > capacity THEN "overrun" ELSE "idle"
                /\ frame' = [fr EXCEPT !.written = memcpy(begin, fr.address, size)]
                /\ UNCHANGED <<prevSegStart, currSegStart, inflight, graphicsQueue>>
        /\ UNCHANGED <<begin, capacity>>

Stage(size, alignment) ==
    /\ size \in 1..capacity
    /\ \E ndebug \in BOOLEAN : StageBody(size, alignment, ndebug)

StageOversize(size, alignment) ==
    /\ size \in (capacity + 1)..(capacity + MaxOversize)
    /\ \E ndebug \in BOOLEAN : StageBody(size, alignment, ndebug)

\* An explicit call of executeCopyCommands(immediateCopy).
Flush(immediateCopy) ==
    /\ pc = "idle"
    /\ ExecuteBegin(immediateCopy,
                    [NoCall EXCEPT !.op = "flush", !.prevOp = frame.op,
                                   !.start = offset, !.alignedEnd = offset,
                                   !.offset0 = offset, !.prev0 = prevSegStart,
                                   !.curr0 = currSegStart,
                                   !.pending0 = commandList,
                                   !.flushedBefore = frame.flushedBefore
                                                         \/ frame.flushed])
    /\ UNCHANGED <<begin, capacity, offset, prevSegStart, currSegStart>>

SyncThread_skip ==
    /\ pc = "syncThread"
    /\ pc' = "resetCommandAllocator"
    /\ frame' = [frame EXCEPT !.waits = @ + Blocks(ResetCommandAllocatorDone(inflight))]
    /\ UNCHANGED <<begin, capacity, offset, prevSegStart, currSegStart,
                   commandList, inflight, graphicsQueue>>

SyncThread_nextFence ==
    /\ pc = "syncThread"
    /\ Len(inflight) + 1 <= 0
    /\ pc' = "resetCommandAllocator"
    /\ frame' = [frame EXCEPT !.waits = @ + Blocks(ResetCommandAllocatorDone(inflight))]
    /\ UNCHANGED <<begin, capacity, offset, prevSegStart, currSegStart,
                   commandList, inflight, graphicsQueue>>

\* m_copyContext.syncThread(insertedValue) returns.
SyncThread ==
    /\ pc = "syncThread"
    /\ SyncThreadDone(inflight)
    /\ pc' = "resetCommandAllocator"
    /\ frame' = [frame EXCEPT !.waits = @ + Blocks(ResetCommandAllocatorDone(inflight))]
    /\ UNCHANGED <<begin, capacity, offset, prevSegStart, currSegStart,
                   commandList, inflight, graphicsQueue>>

ExecuteEnd_noWait ==
    /\ pc = "resetCommandAllocator"
    /\ prevSegStart' = NewPrevSegStart(frame.immediateCopy, currSegStart)
    /\ currSegStart' = NewCurrSegStart(offset)
    /\ IF frame.op = "stage"
       THEN /\ offset' = frame.alignedEnd
            /\ commandList' = Append(ResetCommandList(commandList),
                                     CopyCommand(frame.start, frame.size))
            /\ pc' = IF frame.alignedEnd > capacity THEN "overrun" ELSE "idle"
            /\ frame' = [frame EXCEPT
                             !.written = memcpy(begin, frame.address, frame.size)]
       ELSE /\ offset' = offset
            /\ commandList' = ResetCommandList(commandList)
            /\ pc' = "idle"
            /\ frame' = frame
    /\ UNCHANGED <<begin, capacity, inflight, graphicsQueue>>

\* resetCommandAllocator() returns, and executeCopyCommands runs to its end;
\* when reserveChunkOfUploadBuffer made the call, so do it and its caller.
ExecuteEnd ==
    /\ pc = "resetCommandAllocator"
    /\ ResetCommandAllocatorDone(inflight)
    /\ prevSegStart' = NewPrevSegStart(frame.immediateCopy, currSegStart)
    /\ currSegStart' = NewCurrSegStart(offset)
    /\ IF frame.op = "stage"
       THEN /\ offset' = frame.alignedEnd
            /\ commandList' = Append(ResetCommandList(commandList),
                                     CopyCommand(frame.start, frame.size))
            /\ pc' = IF frame.alignedEnd > capacity THEN "overrun" ELSE "idle"
            /\ frame' = [frame EXCEPT
                             !.written = memcpy(begin, frame.address, frame.size)]
       ELSE /\ offset' = offset
            /\ commandList' = ResetCommandList(commandList)
            /\ pc' = "idle"
            /\ frame' = frame
    /\ UNCHANGED <<begin, capacity, inflight, graphicsQueue>>

\* The copy queue completes the oldest submitted command list.
Complete ==
    /\ inflight # <<>>
    /\ inflight' = Tail(inflight)
    /\ graphicsQueue' = FenceSignalled(graphicsQueue)
    /\ UNCHANGED <<begin, capacity, offset, prevSegStart, currSegStart,
                   pc, frame, commandList>>

\* Renderer::stop destroys the graphics and the copy contexts.
Stop ==
    /\ pc = "idle"
    /\ pc' = "stopped"
    /\ UNCHANGED <<begin, capacity, offset, prevSegStart, currSegStart,
                   frame, commandList, inflight, graphicsQueue>>

Next ==
    \/ \E size \in 1..UPLOAD_BUF_SIZE, alignment \in Alignments : Stage(size, alignment)
    \/ \E immediateCopy \in BOOLEAN : Flush(immediateCopy)
    \/ SyncThread
    \/ ExecuteEnd
    \/ Complete
    \/ Stop

Spec == Init /\ [][Next]_vars

\* The copy queue completes every command list submitted to it, and a thread
\* whose wait is over goes on.
Fairness ==
    /\ WF_vars(Complete)
    /\ WF_vars(SyncThread)
    /\ WF_vars(ExecuteEnd)

LiveSpec == Init /\ [][Next]_vars /\ Fairness

\* The same program with requests larger than the buffer.
NextOversize ==
    \/ Next
    \/ \E size \in (UPLOAD_BUF_SIZE + 1)..(UPLOAD_BUF_SIZE + MaxOversize),
          alignment \in Alignments : StageOversize(size, alignment)

SpecOversize == Init /\ [][NextOversize]_vars

\* finalizeFrame submits the graphics command list of the frame; the thread
\* goes on when the graphics queue can take the frame.
FinalizeFrame ==
    /\ pc = "idle"
    /\ Cardinality(Frames(graphicsQueue)) < MaxFrames
    /\ graphicsQueue' = Append(graphicsQueue, GraphicsFrame(Len(inflight)))
    /\ UNCHANGED <<begin, capacity, offset, prevSegStart, currSegStart, pc,
                   frame, commandList, inflight>>

\* The graphics queue executes the frame at its head.
GraphicsExecute ==
    /\ graphicsQueue # <<>>
    /\ Head(graphicsQueue).kind = "frame"
    /\ graphicsQueue' = Passed(Tail(graphicsQueue))
    /\ UNCHANGED <<begin, capacity, offset, prevSegStart, currSegStart, pc,
                   frame, commandList, inflight>>

\* The frame loop: setViewProjMatrix stages the matrix, executeCopyCommands
\* submits it, finalizeFrame submits the frame that reads it.
NextFrames ==
    \/ \E alignment \in Alignments : Stage(ViewProjSize, alignment)
    \/ \E immediateCopy \in BOOLEAN : Flush(immediateCopy)
    \/ SyncThread
    \/ ExecuteEnd
    \/ Complete
    \/ FinalizeFrame
    \/ GraphicsExecute

SpecFrames == Init /\ [][NextFrames]_vars

\* The hazard tests of reserveChunkOfUploadBuffer as functions of their
\* inputs: every value of the cursors within the capacity, then reserves of
\* every size and alignment.
InitCursors ==
    /\ begin = PageSize
    /\ capacity = UPLOAD_BUF_SIZE
    /\ offset \in 0..UPLOAD_BUF_SIZE
    /\ prevSegStart \in (0..UPLOAD_BUF_SIZE) \cup {UINT_MAX}
    /\ currSegStart \in 0..UPLOAD_BUF_SIZE
    /\ pc = "idle"
    /\ frame = NoCall
    /\ commandList = <<>>
    /\ inflight = <<>>
    /\ graphicsQueue = <<>>

NextReserve ==
    \E size \in 1..UPLOAD_BUF_SIZE, alignment \in Alignments : Stage(size, alignment)

SpecCursors == InitCursors /\ [][NextReserve]_vars

TypeOK ==
    /\ pc \in {"idle", "syncThread", "resetCommandAllocator", "terminated",
               "overrun", "stopped"}
    /\ offset \in 0..UINT_MAX
    /\ prevSegStart \in 0..UINT_MAX
    /\ currSegStart \in 0..UINT_MAX
    /\ Len(inflight) <= 2
    /\ Len(graphicsQueue) <= 2 * MaxFrames + 1

(* ------------------------------ properties ----------------------------- *)

\* The producer is between two calls.
Returned == pc \in {"idle", "stopped"}

\* The chunk handed out by the current (or last) staging operation.
Chunk == frame.start .. (frame.start + frame.size - 1)

\* The bytes of the ring interval [from, to) modulo the capacity.
RingSeg(from, to) ==
    IF from <= to
    THEN {b \in 0..(capacity - 1) : from <= b /\ b < to}
    ELSE {b \in 0..(capacity - 1) : from <= b \/ b < to}

C2_AllSubmittedAtStop == pc = "stopped" => commandList = <<>>

\* C2 (amended): a reserved chunk is submitted at most once, and it is
\* submitted before a later staging operation is handed a chunk that
\* overlaps it; stop submits nothing.
C2_SubmittedOnceBeforeOverwrite ==
    /\ Returned => \A i \in 1..Len(commandList) : commandList[i].subs = 0
    /\ \A k \in 1..Len(inflight) :
           \A i \in 1..Len(inflight[k]) : inflight[k][i].subs = 1
    /\ (Returned /\ frame.op = "stage") =>
           \A i \in 1..(Len(commandList) - 1) : Bytes(commandList[i]) \cap Chunk = {}
    /\ (pc = "stopped") => \A i \in 1..Len(commandList) : commandList[i].subs = 0

C2_Witness ==
    /\ pc = "stopped"
    /\ frame.op = "stage"
    /\ frame.wrapAround
    /\ Len(commandList) >= 2
    /\ inflight # <<>>
    /\ inflight[1] # <<>>

C4_CursorsBelowCapacity ==
    /\ 0 <= offset /\ offset < capacity
    /\ (currSegStart = UINT_MAX \/ (0 <= currSegStart /\ currSegStart < capacity))
    /\ (prevSegStart = UINT_MAX \/ (0 <= prevSegStart /\ prevSegStart < capacity))

\* C4 (amended): offset is at most the capacity, and each segment start is
\* invalid or at most the capacity.
C4_CursorsWithinCapacity ==
    /\ 0 <= offset /\ offset <= capacity
    /\ (currSegStart = UINT_MAX \/ (0 <= currSegStart /\ currSegStart <= capacity))
    /\ (prevSegStart = UINT_MAX \/ (0 <= prevSegStart /\ prevSegStart <= capacity))

C4_Witness ==
    /\ pc = "idle"
    /\ offset = capacity
    /\ currSegStart = capacity
    /\ prevSegStart # UINT_MAX

\* C5: a request of at most the capacity is never refused, and it is handed
\* one contiguous chunk inside the buffer whose offset and address are
\* multiples of the alignment.
C5_ChunkAlignedInsideBuffer ==
    frame.op = "stage" =>
        /\ pc # "terminated"
        /\ frame.start % frame.alignment = 0
        /\ (begin + frame.start) % frame.alignment = 0
        /\ 0 <= frame.start
        /\ frame.start + frame.size <= capacity

C5_Witness ==
    /\ pc = "idle"
    /\ frame.op = "stage"
    /\ frame.alignment > 1
    /\ ~frame.wrapAround
    /\ frame.start > frame.offset0

\* C6: a request larger than the capacity ends in TERMINATE: no chunk is
\* handed out and offset does not move.
C6_OversizeTerminates ==
    (frame.op = "stage" /\ frame.size > capacity) =>
        /\ pc = "terminated"
        /\ offset = frame.offset0

\* C7: a call submits at most one command list, blocks in at most one wait,
\* and leaves the address and the capacity of the buffer alone.
C7_OneSubmissionOneWait ==
    /\ [](frame.submits <= 1 /\ frame.waits <= 1)
    /\ [][begin' = begin /\ capacity' = capacity]_vars

C7_Witness ==
    /\ pc = "idle"
    /\ frame.op = "stage"
    /\ frame.submits = 1
    /\ frame.waits = 1
    /\ ~frame.immediateCopy

\* C8: an executeCopyCommands that directly follows another one submits no
\* chunk.
C8_SecondFlushEmpty ==
    (frame.op = "flush" /\ frame.prevOp = "flush") => frame.batch = <<>>

C8_Witness ==
    /\ pc = "idle"
    /\ frame.op = "flush"
    /\ frame.prevOp = "flush"
    /\ frame.prev0 # UINT_MAX
    /\ frame.prev0 # frame.curr0

\* C9 (as claimed): executeCopyCommands called when currSegStart = offset
\* leaves the three cursors as they were.
C9_EmptyFlushNoOp ==
    (pc = "idle" /\ frame.op = "flush" /\ frame.curr0 = frame.offset0) =>
        /\ offset = frame.offset0
        /\ currSegStart = frame.curr0
        /\ prevSegStart = frame.prev0

\* C9 (amended): executeCopyCommands called when currSegStart = offset
\* leaves offset and currSegStart as they were and sets prevSegStart to
\* currSegStart (to the invalid value when immediateCopy); the command list
\* it submits is empty and no chunk is in flight when it returns.
C9_EmptyFlushMovesPrev ==
    (pc = "idle" /\ frame.op = "flush" /\ frame.curr0 = frame.offset0) =>
        /\ offset = frame.offset0
        /\ currSegStart = frame.curr0
        /\ prevSegStart = (IF frame.immediateCopy THEN UINT_MAX ELSE frame.curr0)
        /\ frame.batch = <<>>
        /\ BytesInFlight = {}

C9_Witness ==
    /\ pc = "idle"
    /\ frame.op = "flush"
    /\ frame.curr0 = frame.offset0
    /\ ~frame.immediateCopy
    /\ frame.prev0 # UINT_MAX
    /\ frame.prev0 # frame.curr0
    /\ frame.waits = 1

\* C10: when executeCopyCommands(true) has returned, every submitted command
\* list has completed, prevSegStart is invalid, currSegStart = offset and no
\* copy command is recorded.
C10_ImmediateCopyDrains ==
    (pc = "idle" /\ frame.op = "flush" /\ frame.immediateCopy) =>
        /\ inflight = <<>>
        /\ prevSegStart = UINT_MAX
        /\ currSegStart = offset
        /\ commandList = <<>>

C10_Witness ==
    /\ pc = "idle"
    /\ frame.op = "flush"
    /\ frame.immediateCopy
    /\ frame.batch # <<>>
    /\ frame.prev0 # UINT_MAX

\* The thread is inside executeCopyCommands, at one of its two waits.
Waiting == pc \in {"syncThread", "resetCommandAllocator"}

\* C11: when executeCopyCommands(false) has returned, the command list
\* submitted by the preceding flush has completed: only the command list
\* submitted by this call may still be in flight.
C11_PreviousBatchCompleted ==
    (pc = "idle" /\ frame.flushed /\ ~frame.immediateCopy) =>
        /\ Len(inflight) <= 1
        /\ (inflight # <<>> => inflight[1] = frame.batch)

C11_Witness ==
    /\ pc = "idle"
    /\ frame.op = "flush"
    /\ ~frame.immediateCopy
    /\ frame.waits = 1
    /\ frame.batch # <<>>
    /\ inflight = <<frame.batch>>

\* C12 (as claimed): only a call that performs a blocking flush
\* (immediateCopy) ever waits for the copy queue.
C12_OnlyImmediateCopyBlocks == frame.waits > 0 => frame.immediateCopy

\* C12 (amended): a call waits only inside executeCopyCommands; a
\* non-blocking flush can block in resetCommandAllocator, and only for an
\* earlier command list, never for the one it has submitted; a blocking
\* flush waits in syncThread for the command list it has submitted and then
\* passes resetCommandAllocator without blocking.
C12_BlocksOnlyInsideExecute ==
    /\ (Waiting \/ frame.waits > 0) => frame.flushed
    /\ pc = "syncThread" => frame.immediateCopy
    /\ (pc = "resetCommandAllocator" /\ frame.immediateCopy)
           => ResetCommandAllocatorDone(inflight)
    /\ (pc = "resetCommandAllocator" /\ ~frame.immediateCopy /\ Len(inflight) <= 1)
           => ENABLED ExecuteEnd

C12_Witness ==
    /\ pc = "resetCommandAllocator"
    /\ ~frame.immediateCopy
    /\ frame.op = "flush"
    /\ Len(inflight) = 2
    /\ frame.waits = 1

\* C13: when the copy queue completes every command list submitted to it,
\* every call that is waiting inside executeCopyCommands returns.
C13_EveryCallReturns == Waiting ~> (pc = "idle")

C13_Witness ==
    /\ pc = "syncThread"
    /\ frame.op = "stage"
    /\ frame.waitForPrevCopies
    /\ Len(inflight) = 2

\* A reserveChunkOfUploadBuffer call has returned.
StageReturned == pc = "idle" /\ frame.op = "stage"

\* C17: a reserve for which executeAllCopies holds (the chunk wraps, or
\* reaches or crosses currSegStart) submits exactly one command list, and
\* when it returns currSegStart is the offset of the chunk it returns.
C17_Hazard1OneSubmission ==
    (StageReturned /\ frame.executeAllCopies) =>
        /\ frame.submits = 1
        /\ frame.flushed
        /\ currSegStart = frame.start

C17_Witness ==
    /\ StageReturned
    /\ frame.executeAllCopies
    /\ frame.wrapAround
    /\ frame.batch # <<>>
    /\ currSegStart = frame.start

\* C18 (as claimed): a reserve for which waitForPrevCopies holds returns
\* with prevSegStart invalid (UINT_MAX).
C18_Hazard2InvalidatesPrev ==
    (StageReturned /\ frame.waitForPrevCopies) => prevSegStart = UINT_MAX

\* C18 (amended): a reserve for which waitForPrevCopies holds calls
\* executeCopyCommands, and so has waited for every command list but the one
\* it submitted; it leaves prevSegStart invalid only when executeAllCopies
\* holds as well, and otherwise sets it to the start of the segment it has
\* submitted. prevSegStart changes nowhere but at the end of
\* executeCopyCommands.
C18_Hazard2FlushesAndWaits ==
    /\ [](    (StageReturned /\ frame.waitForPrevCopies) =>
                /\ frame.flushed
                /\ Len(inflight) <= 1
                /\ (inflight # <<>> => inflight[1] = frame.batch)
                /\ prevSegStart = (IF frame.executeAllCopies THEN UINT_MAX
                                                             ELSE frame.curr0))
    /\ [][prevSegStart' # prevSegStart => pc = "resetCommandAllocator"]_vars

C18_Witness ==
    /\ StageReturned
    /\ frame.waitForPrevCopies
    /\ ~frame.executeAllCopies
    /\ frame.waits = 1
    /\ prevSegStart = frame.curr0
    /\ prevSegStart # UINT_MAX

\* C19 (as claimed): a flush caused by executeAllCopies alone is
\* non-blocking.
C19_Hazard1AloneNonBlocking ==
    (frame.op = "stage" /\ frame.flushed
        /\ frame.executeAllCopies /\ ~frame.waitForPrevCopies)
            => ~frame.immediateCopy

\* C19 (amended): the flush inside a reserve is blocking exactly when
\* executeAllCopies holds, whatever waitForPrevCopies is, and such a reserve
\* returns with no command list in flight.
C19_Hazard1AlwaysBlocking ==
    /\ (frame.op = "stage" /\ frame.flushed)
           => frame.immediateCopy = frame.executeAllCopies
    /\ (StageReturned /\ frame.executeAllCopies) => inflight = <<>>

C19_Witness ==
    /\ StageReturned
    /\ frame.executeAllCopies
    /\ ~frame.waitForPrevCopies
    /\ frame.immediateCopy
    /\ frame.waits = 1
    /\ inflight = <<>>

\* C20 (as claimed): a reserve for which waitForPrevCopies holds and
\* executeAllCopies does not submits no command list.
C20_Hazard2AloneNoSubmission ==
    (StageReturned /\ frame.waitForPrevCopies /\ ~frame.executeAllCopies)
        => frame.submits = 0

\* C20 (amended): a reserve for which waitForPrevCopies holds and
\* executeAllCopies does not submits the pending command list with a
\* non-blocking executeCopyCommands: one submission, which may still be in
\* flight on return, and the cursors move to the new segment.
C20_Hazard2AloneSubmits ==
    (StageReturned /\ frame.waitForPrevCopies /\ ~frame.executeAllCopies) =>
        /\ frame.submits = 1
        /\ ~frame.immediateCopy
        /\ prevSegStart = frame.curr0
        /\ currSegStart = frame.start
        /\ commandList = <<CopyCommand(frame.start, frame.size)>>

C20_Witness ==
    /\ StageReturned
    /\ frame.waitForPrevCopies
    /\ ~frame.executeAllCopies
    /\ frame.submits = 1
    /\ inflight = <<frame.batch>>
    /\ frame.batch # <<>>

\* The value copyToUploadBuffer returns, and the bytes of the buffer that its
\* memcpy must write: those of the chunk at that offset, in the order of the
\* source.
SourceAt(off, size) == [b \in off..(off + size - 1) |-> b - off + 1]

\* C14: copyToUploadBuffer returns the offset that
\* reserveChunkOfUploadBuffer returns, and it writes the bytes of the source,
\* in order, to the bytes [offset, offset + size) of the buffer and to no
\* other byte.
C14_WriteFillsReservedChunk ==
    StageReturned =>
        /\ frame.result = frame.start
        /\ frame.address = begin + frame.result
        /\ frame.written = SourceAt(frame.result, frame.size)

C14_Witness ==
    /\ StageReturned
    /\ frame.wrapAround
    /\ frame.flushed
    /\ frame.size >= 2
    /\ frame.offset0 > 0
    /\ frame.written = SourceAt(0, frame.size)

\* m_uploadBuffer.offset when executeCopyCommands submits the command list:
\* inside reserveChunkOfUploadBuffer it is already the offset of the chunk
\* being reserved.
OffsetAtFlush == IF frame.op = "stage" THEN frame.start ELSE frame.offset0

\* C15 (as claimed): the command list that a flush submits reads only
\* bytes of the ring interval from currSegStart to m_uploadBuffer.offset as
\* it is when the command list is submitted.
C15_BatchWithinCursorsAtFlush ==
    (frame.flushed /\ frame.curr0 # OffsetAtFlush) =>
        BytesOf(frame.batch) \subseteq RingSeg(frame.curr0, OffsetAtFlush)

\* C15 (amended): a flush submits exactly the copy commands recorded since
\* the previous submission, in their order, each for the first time; they
\* read only bytes of the ring interval from currSegStart to the offset as
\* it was when the call began; the chunk of a reserve that flushes is the
\* first command of the next command list.
C15_BatchIsPendingSegment ==
    /\ frame.flushed =>
          /\ frame.batch = Submitted(frame.pending0)
          /\ \A i \in 1..Len(frame.batch) : frame.batch[i].subs = 1
          /\ BytesOf(frame.batch) \subseteq RingSeg(frame.curr0, frame.offset0)
    /\ StageReturned =>
          commandList = Append(IF frame.flushed THEN <<>> ELSE frame.pending0,
                               CopyCommand(frame.start, frame.size))
    /\ (pc = "idle" /\ frame.op = "flush") => commandList = <<>>

C15_Witness ==
    /\ StageReturned
    /\ frame.flushed
    /\ frame.wrapAround
    /\ Len(frame.batch) = 2
    /\ frame.curr0 > frame.offset0
    /\ ~(BytesOf(frame.batch) \subseteq RingSeg(frame.curr0, frame.start))
    /\ commandList = <<CopyCommand(frame.start, frame.size)>>

\* A call of executeCopyCommands, explicit or made inside
\* reserveChunkOfUploadBuffer, has returned.
FlushReturned == pc = "idle" /\ frame.flushed

\* C21: when a call that flushed returns, currSegStart is the offset of the
\* chunk being reserved (inside reserveChunkOfUploadBuffer) or the current
\* offset (explicit executeCopyCommands), and prevSegStart is the value
\* currSegStart had before the flush when it was non-blocking and UINT_MAX
\* when it was blocking.
C21_CursorsAfterFlush ==
    FlushReturned =>
        /\ currSegStart = (IF frame.op = "stage" THEN frame.start ELSE offset)
        /\ prevSegStart = (IF frame.immediateCopy THEN UINT_MAX ELSE frame.curr0)

C21_Witness ==
    /\ FlushReturned
    /\ frame.op = "stage"
    /\ ~frame.immediateCopy
    /\ prevSegStart = frame.curr0
    /\ prevSegStart # UINT_MAX
    /\ currSegStart = frame.start
    /\ currSegStart # frame.offset0

\* roundUp(x, alignment) for an offset
RoundUp(x, alignment) == ((x + alignment - 1) \div alignment) * alignment

\* C22: a reserve wraps exactly when capacity - roundUp(offset, alignment) <
\* size; it returns offset 0 when it wraps and roundUp(offset, alignment)
\* when it does not.
C22_WrapRule ==
    frame.op = "stage" =>
        /\ frame.wrapAround
              <=> (capacity - RoundUp(frame.offset0, frame.alignment) < frame.size)
        /\ frame.start = (IF frame.wrapAround
                          THEN 0
                          ELSE RoundUp(frame.offset0, frame.alignment))
        /\ frame.result = frame.start

C22_Witness ==
    /\ StageReturned
    /\ frame.wrapAround
    /\ frame.alignment > 1
    /\ frame.offset0 % frame.alignment # 0
    /\ RoundUp(frame.offset0, frame.alignment) < capacity
    /\ frame.start = 0

\* The copy commands of cl read pairwise disjoint ranges, at increasing
\* offsets in the order of cl.
Increasing(cl) ==
    \A i \in 1..(Len(cl) - 1) : cl[i].start + cl[i].size <= cl[i + 1].start

\* C23: as long as executeCopyCommands has never been called, a reserve
\* that does not wrap submits nothing and waits for nothing, and the chunks
\* handed out so far are aligned, pairwise disjoint and at increasing
\* offsets; the first reserve of all never synchronizes.
C23_NoSyncBeforeFirstFlush ==
    /\ (frame.op = "stage" /\ ~frame.flushedBefore /\ ~frame.wrapAround) =>
          /\ ~frame.flushed
          /\ frame.submits = 0
          /\ frame.waits = 0
          /\ ~Waiting
          /\ (begin + frame.start) % frame.alignment = 0
          /\ frame.start + frame.size <= capacity
    /\ (StageReturned /\ ~frame.flushedBefore /\ ~frame.flushed) =>
          /\ commandList = Append(frame.pending0,
                                  CopyCommand(frame.start, frame.size))
          /\ Increasing(commandList)
    /\ (frame.op = "stage" /\ frame.prevOp = "none") => ~frame.flushed

C23_Witness ==
    /\ StageReturned
    /\ ~frame.flushedBefore
    /\ ~frame.flushed
    /\ Len(commandList) = 3
    /\ frame.alignment > 1
    /\ commandList[2].start + commandList[2].size < frame.start

\* C24 (as claimed): while a reserve is inside executeCopyCommands, offset
\* still has the value it had when the reserve was called.
C24_OffsetUntouchedDuringFlush ==
    (frame.op = "stage" /\ Waiting) => offset = frame.offset0

\* C24 (amended): while a reserve is inside executeCopyCommands, offset is
\* the offset of the chunk being reserved (alignedOffset), and when the
\* reserve returns offset is that offset plus the size (alignedEnd).
C24_OffsetDuringAndAfterReserve ==
    /\ (frame.op = "stage" /\ Waiting) => offset = ToUint(frame.start)
    /\ StageReturned => offset = ToUint(frame.start + frame.size)

C24_Witness ==
    /\ frame.op = "stage"
    /\ Waiting
    /\ ~frame.wrapAround
    /\ offset # frame.offset0
    /\ offset = frame.start

\* C25: between calls, currSegStart = offset only when no copy command is
\* pending; a reserve whose chunk ends exactly at currSegStart flushes.
C25_EqualCursorsMeanEmptySegment ==
    /\ (pc = "idle" /\ currSegStart = offset) => commandList = <<>>
    /\ (frame.op = "stage" /\ frame.alignedEnd = frame.curr0
            /\ frame.pending0 # <<>>) => frame.flushed

C25_Witness ==
    /\ StageReturned
    /\ frame.alignedEnd = frame.curr0
    /\ frame.pending0 # <<>>
    /\ ~frame.wrapAround
    /\ frame.flushed
    /\ currSegStart # offset

\* C26: a reserve for which neither executeAllCopies nor waitForPrevCopies
\* holds submits nothing, waits for nothing, leaves prevSegStart and
\* currSegStart as they were and only moves offset and records its copy
\* command.
C26_NoHazardOnlyMovesOffset ==
    (frame.op = "stage" /\ ~frame.executeAllCopies /\ ~frame.waitForPrevCopies
        /\ pc # "terminated") =>
        /\ Returned
        /\ ~frame.flushed
        /\ frame.submits = 0
        /\ frame.waits = 0
        /\ prevSegStart = frame.prev0
        /\ currSegStart = frame.curr0
        /\ offset = frame.alignedEnd
        /\ commandList = Append(frame.pending0, CopyCommand(frame.start, frame.size))

C26_Witness ==
    /\ StageReturned
    /\ ~frame.executeAllCopies
    /\ ~frame.waitForPrevCopies
    /\ frame.wrapAround
    /\ inflight # <<>>
    /\ prevSegStart # UINT_MAX

\* The positions that the write cursor passes over or lands on when it moves
\* forward from off to alignedEnd: through the end of the buffer and from 0
\* on when the reserve wraps.
CursorPath(cap, off, alignedEnd, wrapAround) ==
    IF wrapAround
    THEN ((off + 1)..cap) \cup (0..alignedEnd)
    ELSE (off + 1)..alignedEnd

\* C27: for every offset and currSegStart within the capacity and every
\* size and alignment, executeAllCopies (caseA | caseB | caseC) holds
\* exactly when the write cursor, moving from offset to alignedEnd, passes
\* over or lands on currSegStart.
C27_Hazard1IsCrossing ==
    frame.op = "stage" =>
        (frame.executeAllCopies
             <=> frame.curr0 \in CursorPath(capacity, frame.offset0,
                                            frame.alignedEnd, frame.wrapAround))

C27_Witness ==
    /\ frame.op = "stage"
    /\ frame.wrapAround
    /\ frame.executeAllCopies
    /\ frame.alignedEnd < frame.curr0
    /\ frame.offset0 < frame.curr0
    /\ frame.curr0 < capacity
    /\ frame.pending0 = <<>>

\* C28: between calls, at most one submitted command list is incomplete; it
\* reads only bytes of the previous segment, from prevSegStart to
\* currSegStart around the ring, and none is incomplete when prevSegStart
\* is invalid (UINT_MAX).
C28_InFlightInsidePrevSegment ==
    pc = "idle" =>
        /\ Len(inflight) <= 1
        /\ IF prevSegStart = UINT_MAX
           THEN BytesInFlight = {}
           ELSE BytesInFlight \subseteq RingSeg(prevSegStart, currSegStart)

\* C29: the copy commands recorded since the last flush read pairwise
\* disjoint ranges of the buffer.
C29_PendingRangesDisjoint ==
    \A i, j \in 1..Len(commandList) :
        i < j => Bytes(commandList[i]) \cap Bytes(commandList[j]) = {}

C29_Witness ==
    /\ StageReturned
    /\ frame.wrapAround
    /\ ~frame.flushed
    /\ Len(commandList) = 3
    /\ commandList[1].start > commandList[3].start

\* C30: the frame that the graphics queue is about to execute was submitted
\* when every command list of the copy queue submitted before it had a wait
\* in front of it in the graphics queue: none of them is still incomplete.
C30_GraphicsAfterCopies ==
    (graphicsQueue # <<>> /\ Head(graphicsQueue).kind = "frame")
        => Head(graphicsQueue).copies = 0

C30_Witness ==
    /\ Len(graphicsQueue) = 2
    /\ graphicsQueue[1] = GraphicsWait(1)
    /\ graphicsQueue[2] = GraphicsFrame(1)
    /\ frame.flushed
    /\ ~frame.immediateCopy
    /\ inflight = <<frame.batch>>
    /\ frame.batch # <<>>

\* C31: a staging operation records its copy command when memcpy has
\* filled the range that the command reads; until then neither the pending
\* command list nor the command list that the reserve submits holds the
\* command, so every submitted command was recorded, hence filled, before.
C31_RecordedAfterFilled ==
    /\ StageReturned =>
          /\ commandList # <<>>
          /\ commandList[Len(commandList)] = CopyCommand(frame.result, frame.size)
          /\ Bytes(commandList[Len(commandList)]) \subseteq DOMAIN frame.written
          /\ Len(commandList) = (IF frame.flushed THEN 0 ELSE Len(frame.pending0)) + 1
    /\ (frame.op = "stage" /\ frame.flushed) =>
          frame.batch = Submitted(frame.pending0)
    /\ (frame.op = "stage" /\ Waiting) =>
          /\ frame.written = NoWrite
          /\ commandList = Submitted(frame.pending0)

C31_Witness ==
    /\ StageReturned
    /\ frame.flushed
    /\ frame.wrapAround
    /\ frame.batch # <<>>
    /\ commandList = <<CopyCommand(frame.result, frame.size)>>
    /\ DOMAIN frame.written = Chunk
    /\ Chunk \cap BytesOf(frame.batch) # {}

\* C32: without a wrap the offset of the chunk is the smallest multiple of
\* the alignment that is not below the old offset: the padding is in
\* [0, alignment).
C32_PaddingBelowAlignment ==
    (frame.op = "stage" /\ ~frame.wrapAround) =>
        /\ frame.start % frame.alignment = 0
        /\ frame.offset0 <= frame.start
        /\ frame.start - frame.offset0 < frame.alignment
        /\ \A m \in frame.offset0..frame.start :
               m % frame.alignment = 0 => m = frame.start

C32_Witness ==
    /\ frame.op = "stage"
    /\ ~frame.wrapAround
    /\ frame.alignment = MaxAlignment
    /\ frame.start - frame.offset0 = frame.alignment - 1

\* C33: a reserve called while prevSegStart is invalid (UINT_MAX) finds
\* waitForPrevCopies (caseD | caseE) false; after a blocking flush
\* prevSegStart is invalid until a non-blocking flush returns.
C33_SentinelNeverWaits ==
    /\ [](    (frame.op = "stage" /\ frame.prev0 = UINT_MAX)
                  => ~frame.waitForPrevCopies)
    /\ [][(prevSegStart = UINT_MAX /\ prevSegStart' # UINT_MAX)
              => (pc = "resetCommandAllocator" /\ ~frame.immediateCopy)]_vars

C33_Witness ==
    /\ StageReturned
    /\ frame.prev0 = UINT_MAX
    /\ frame.flushedBefore
    /\ frame.wrapAround
    /\ ~frame.flushed
    /\ frame.curr0 # UINT_MAX

====
